---- MODULE Spec2Model ----
(***************************************************************************)
(* State-machine model of the single-file Flask music application          *)
(* (src/app.py): SQLite tables users / songs / playlists / playlist_songs, *)
(* the uploads directory, and the per-browser session cookie.              *)
(*                                                                         *)
(* Text is modelled as a tuple of one-character strings so that strip(),   *)
(* lower(), rsplit(), splitext() and secure_filename() are computed.       *)
(***************************************************************************)
EXTENDS Bags, FiniteSets, Integers, Sequences, TLC

\* ---------------------------------------------------------------- bounds
MaxUsers == 2
MaxSongs == 2
MaxPlaylists == 1
MaxClock == 1
MaxMembers == 2

Clients == {"c1", "c2"}

\* ------------------------------------------------------------------ text
Uppers == <<"A","B","C","D","E","F","G","H","I","J","K","L","M",
            "N","O","P","Q","R","S","T","U","V","W","X","Y","Z">>
Lowers == <<"a","b","c","d","e","f","g","h","i","j","k","l","m",
            "n","o","p","q","r","s","t","u","v","w","x","y","z">>
Digits == <<"0","1","2","3","4","5","6","7","8","9">>

Range(s) == {s[i] : i \in 1..Len(s)}

\* str.lower() on one character
LowerChar(ch) ==
  IF \E i \in 1..26 : Uppers[i] = ch
  THEN Lowers[CHOOSE i \in 1..26 : Uppers[i] = ch]
  ELSE ch

\* str.lower()
Lower(s) == [i \in 1..Len(s) |-> LowerChar(s[i])]

RECURSIVE LStrip(_, _)
LStrip(s, cs) ==
  IF s # <<>> /\ Head(s) \in cs THEN LStrip(Tail(s), cs) ELSE s

RECURSIVE RStrip(_, _)
RStrip(s, cs) ==
  IF s # <<>> /\ s[Len(s)] \in cs THEN RStrip(SubSeq(s, 1, Len(s) - 1), cs) ELSE s

\* str.strip(): whitespace off both ends
Strip(s) == RStrip(LStrip(s, {" "}), {" "})

\* str.rfind(ch), 1-based, 0 when absent
RFind(s, ch) ==
  IF \E i \in 1..Len(s) : s[i] = ch
  THEN CHOOSE i \in 1..Len(s) : s[i] = ch /\ \A j \in (i+1)..Len(s) : s[j] # ch
  ELSE 0

\* filename.rsplit(".", 1)[1]
RSplitExt(s) == SubSeq(s, RFind(s, ".") + 1, Len(s))

ALLOWED_EXT == { <<"m","p","3">>, <<"o","g","g">>, <<"w","a","v">>, <<"m","4","a">> }

\* '.' in the name and the text after the last '.', lower-cased, is allowed
allowed_file(filename) ==
  /\ "." \in Range(filename)
  /\ Lower(RSplitExt(filename)) \in ALLOWED_EXT

\* os.path.splitext(p)[0]: cut at the last '.', unless that dot is before the
\* last separator or only leading dots of the basename precede it
SplitextRoot(p) ==
  LET sep == RFind(p, "/")
      dot == RFind(p, ".")
  IN IF dot > sep /\ \E i \in (sep+1)..(dot-1) : p[i] # "."
     THEN SubSeq(p, 1, dot - 1)
     ELSE p

\* werkzeug secure_filename: separators become spaces, words are joined by
\* '_', characters outside [A-Za-z0-9_.-] are dropped, '.' and '_' are
\* stripped off both ends
SafeChars == Range(Uppers) \cup Range(Lowers) \cup Range(Digits) \cup {"_", ".", "-"}

ReplaceSep(s) == [i \in 1..Len(s) |-> IF s[i] = "/" THEN " " ELSE s[i]]

RECURSIVE JoinWords(_)
JoinWords(s) ==
  IF s = <<>> THEN <<>>
  ELSE IF Head(s) = " "
       THEN IF Len(s) > 1 /\ s[2] = " "
            THEN JoinWords(Tail(s))
            ELSE <<"_">> \o JoinWords(Tail(s))
       ELSE <<Head(s)>> \o JoinWords(Tail(s))

secure_filename(s) ==
  LET joined == JoinWords(Strip(ReplaceSep(s)))
      kept   == SelectSeq(joined, LAMBDA ch : ch \in SafeChars)
  IN RStrip(LStrip(kept, {".", "_"}), {".", "_"})

\* str(int(timestamp)) for the scaled clock
IntText(n) == <<Digits[n + 1]>>

\* f"{int(timestamp)}_{file.filename}" passed through secure_filename
StoredName(ts, original) == secure_filename(IntText(ts) \o <<"_">> \o original)

\* generate_password_hash / check_password_hash: one-way, matches only the
\* password it was made from
generate_password_hash(password) == <<"pbkdf2", password>>
check_password_hash(pwhash, password) == pwhash = generate_password_hash(password)

\* ------------------------------------------------------------- requests
NoUser == 0
NoFile == <<"<no file part>">>

Path(op, a, b) == [op |-> op, a |-> a, b |-> b]
IndexPath == Path("index", 0, 0)
LoginPath == Path("login", 0, 0)
NoNext == Path("", 0, 0)

NoClient == "-"
Redirect(notice, to) == [client |-> NoClient, kind |-> "redirect", notice |-> notice, to |-> to]
Page(name) == [client |-> NoClient, kind |-> "page", notice |-> "", to |-> Path(name, 0, 0)]
NoResp == [client |-> NoClient, kind |-> "none", notice |-> "", to |-> NoNext]

\* the 500 page of an exception no handler catches
ServerError == [client |-> NoClient, kind |-> "error", notice |-> "", to |-> NoNext]

\* a rendered page that lists rows: items are the ids of the rows, in the
\* order the query returned them
ListPage(to, items) ==
  [client |-> NoClient, kind |-> "page", notice |-> "", to |-> to, items |-> items]

Idle == [pc |-> "idle"]

VARIABLES
  users,           \* rows of table users, in rowid order
  songs,           \* rows of table songs, in rowid order
  playlists,       \* rows of table playlists, in rowid order
  playlist_songs,  \* rows of table playlist_songs, as a bag of (playlist, song)
  seq,             \* sqlite_sequence: last AUTOINCREMENT id per table
  files,           \* names present in the uploads directory
  session,         \* per browser: session["user_id"], NoUser when absent
  loc,             \* per browser: the next= parameter of the login form shown
  resp,            \* the response to the request handled last, and its browser
  req,             \* per browser: the request being handled and its locals
  now,             \* int(datetime.utcnow().timestamp()), scaled
  authCause,       \* which branch the last login attempt took
  wanted           \* per browser: path the session gate intercepted, while only
                   \* login attempts have followed

vars == <<users, songs, playlists, playlist_songs, seq, files,
          session, loc, resp, req, now, authCause, wanted>>

Init ==
  /\ users = <<>>
  /\ songs = <<>>
  /\ playlists = <<>>
  /\ playlist_songs = EmptyBag
  /\ seq = [users |-> 0, songs |-> 0, playlists |-> 0]
  /\ files = {}
  /\ session = [c \in Clients |-> NoUser]
  /\ loc = [c \in Clients |-> NoNext]
  /\ resp = NoResp
  /\ req = [c \in Clients |-> Idle]
  /\ now = 0
  /\ authCause = "none"
  /\ wanted = [c \in Clients |-> NoNext]

\* what a response does to the browser: the response is recorded and the
\* login form's next= parameter is the one of the page now shown
Respond(c, r, nxt) ==
  /\ resp' = [r EXCEPT !.client = c]
  /\ loc' = [loc EXCEPT ![c] = nxt]

\* the clock of the server advances
Tick ==
  /\ now < MaxClock
  /\ now' = now + 1
  /\ UNCHANGED <<users, songs, playlists, playlist_songs, seq, files,
                 session, loc, resp, req, authCause, wanted>>

\* --------------------------------------------------------------- register
\* variant of UsersUniqueViolated with UNIQUE on username only
UsersUniqueViolated_UsernameOnly(username, email) ==
  \E i \in 1..Len(users) : users[i].username = username

\* the UNIQUE constraints of table users
UsersUniqueViolated(username, email) ==
  \E i \in 1..Len(users) : users[i].username = username \/ users[i].email = email

UsernameInputs == { <<>>, <<"a">>, <<" ","a">>, <<"b">> }
EmailInputs == { <<>>, <<"a">>, <<"A">>, <<"e">> }
PasswordInputs == { "", "p" }
LoginPasswords == { "p", "q" }

Register(c, rawUsername, rawEmail, password) ==
  LET username == Strip(rawUsername)
      email == Lower(Strip(rawEmail))
  IN
  /\ req[c] = Idle
  /\ IF username = <<>> \/ email = <<>> \/ password = ""
     THEN /\ Respond(c, Redirect("fill_all_fields", Path("register", 0, 0)), NoNext)
          /\ UNCHANGED <<users, seq>>
     ELSE IF UsersUniqueViolated(username, email)
     THEN /\ Respond(c, Redirect("conflict", Path("register", 0, 0)), NoNext)
          /\ UNCHANGED <<users, seq>>
     ELSE /\ seq.users < MaxUsers
          /\ users' = Append(users, [id |-> seq.users + 1, username |-> username,
                                     email |-> email,
                                     password_hash |-> generate_password_hash(password)])
          /\ seq' = [seq EXCEPT !.users = @ + 1]
          /\ Respond(c, Redirect("registered", LoginPath), NoNext)
  /\ wanted' = [wanted EXCEPT ![c] = NoNext]
  /\ UNCHANGED <<songs, playlists, playlist_songs, files, session, req, now, authCause>>

\* ------------------------------------------------------------------ login
\* SELECT ... WHERE username = ? OR email = ? LIMIT 1 (no ORDER BY: any match)
LoginMatches(ident) ==
  {i \in 1..Len(users) : users[i].username = ident \/ users[i].email = ident}

IdentInputs == { <<"a">>, <<"b">>, <<"e">>, <<"a"," ">> }

\* variant of LoginResult that tells an unknown identifier from a wrong password
LoginResult_Leaky(c, u, password, next_url) ==
  IF u # NoUser /\ check_password_hash(users[u].password_hash, password)
  THEN /\ session' = [session EXCEPT ![c] = users[u].id]
       /\ Respond(c, Redirect("login_ok", next_url), NoNext)
       /\ authCause' = "ok"
       /\ wanted' = [wanted EXCEPT ![c] = NoNext]
  ELSE /\ Respond(c, Redirect(IF u = NoUser THEN "unknown_user" ELSE "invalid_credentials",
                              LoginPath), NoNext)
       /\ authCause' = IF u = NoUser THEN "no_user" ELSE "bad_password"
       /\ UNCHANGED <<session, wanted>>

LoginResult(c, u, password, next_url) ==
  IF u # NoUser /\ check_password_hash(users[u].password_hash, password)
  THEN /\ session' = [session EXCEPT ![c] = users[u].id]
       /\ Respond(c, Redirect("login_ok", next_url), NoNext)
       /\ authCause' = "ok"
       /\ wanted' = [wanted EXCEPT ![c] = NoNext]
  ELSE /\ Respond(c, Redirect("invalid_credentials", LoginPath), NoNext)
       /\ authCause' = IF u = NoUser THEN "no_user" ELSE "bad_password"
       /\ UNCHANGED <<session, wanted>>

Login(c, rawIdent, password) ==
  LET ident == Strip(rawIdent)
      next_url == IF loc[c] # NoNext THEN loc[c] ELSE IndexPath
  IN
  /\ req[c] = Idle
  /\ \E u \in (IF LoginMatches(ident) = {} THEN {NoUser} ELSE LoginMatches(ident)) :
        LoginResult(c, u, password, next_url)
  /\ UNCHANGED <<users, songs, playlists, playlist_songs, seq, files, req, now>>

\* ----------------------------------------------------------------- logout
Logout(c) ==
  /\ req[c] = Idle
  /\ session' = [session EXCEPT ![c] = NoUser]
  /\ Respond(c, Redirect("logged_out", IndexPath), NoNext)
  /\ wanted' = [wanted EXCEPT ![c] = NoNext]
  /\ UNCHANGED <<users, songs, playlists, playlist_songs, seq, files, req, now, authCause>>

\* ----------------------------------------------------------- session gate
\* variant of Gated that runs the handler whatever the session holds
Gated_NoCheck(c, path, handler) == handler

\* login_required: without "user_id" in the session the request is answered
\* by a redirect to login?next=<request.path>
Gated(c, path, handler) ==
  IF session[c] = NoUser
  THEN /\ Respond(c, Redirect("login_required", Path("login", 0, 0)), path)
       /\ wanted' = [wanted EXCEPT ![c] = path]
       /\ UNCHANGED <<users, songs, playlists, playlist_songs, seq, files,
                      session, req, now, authCause>>
  ELSE handler

\* ------------------------------------------------------------------ index
\* the LIMIT of the unfiltered listing
IndexLimit == 200

\* SQLite's LIKE without ESCAPE: '%' matches any run of characters, '_'
\* matches any one character, any other character matches itself with ASCII
\* letters compared without case
RECURSIVE LikeMatch(_, _)
LikeMatch(pat, text) ==
  IF pat = <<>> THEN text = <<>>
  ELSE IF Head(pat) = "%"
  THEN \E k \in 0..Len(text) : LikeMatch(Tail(pat), SubSeq(text, k + 1, Len(text)))
  ELSE IF text = <<>> THEN FALSE
  ELSE IF Head(pat) = "_" THEN LikeMatch(Tail(pat), Tail(text))
  ELSE /\ LowerChar(Head(pat)) = LowerChar(Head(text))
       /\ LikeMatch(Tail(pat), Tail(text))

\* ORDER BY id DESC of a set of rows
RECURSIVE OrderByIdDesc(_)
OrderByIdDesc(rows) ==
  IF rows = {} THEN <<>>
  ELSE LET top == CHOOSE r \in rows : \A o \in rows : o.id <= r.id
       IN <<top>> \o OrderByIdDesc(rows \ {top})

\* LIMIT n
Limit(rows, n) == SubSeq(rows, 1, IF Len(rows) < n THEN Len(rows) ELSE n)

\* songs JOIN users ON users.id = songs.user_id
SongsJoinUsers ==
  {r \in Range(songs) : \E i \in 1..Len(users) : users[i].id = r.user_id}

\* the rows the index page lists for the query parameter q
IndexListing(rawQ) ==
  LET q == Strip(rawQ) IN
  IF q # <<>>
  THEN OrderByIdDesc({r \in SongsJoinUsers : LikeMatch(<<"%">> \o q \o <<"%">>, r.title)})
  ELSE Limit(OrderByIdDesc(SongsJoinUsers), IndexLimit)

Ids(rows) == [i \in 1..Len(rows) |-> rows[i].id]

\* GET /?q=..., open to everyone
Index(c, rawQ) ==
  /\ req[c] = Idle
  /\ Respond(c, ListPage(IndexPath, Ids(IndexListing(rawQ))), NoNext)
  /\ UNCHANGED <<users, songs, playlists, playlist_songs, seq, files, session,
                 req, now, authCause, wanted>>

\* ----------------------------------------------------------------- upload
UploadPath == Path("upload", 0, 0)

\* uploads that have written their file and not yet inserted their row
UploadsInFlight == Cardinality({c \in Clients : req[c].pc = "upload_saved"})

\* POST /upload up to file.save(save_path)
UploadHandler(c, rawTitle, file) ==
  LET title == Strip(rawTitle)
      filename == StoredName(now, file)
  IN
  IF file = NoFile \/ file = <<>>
  THEN /\ Respond(c, Redirect("no_file", UploadPath), NoNext)
       /\ UNCHANGED <<files, req>>
  ELSE IF ~allowed_file(file)
  THEN /\ Respond(c, Redirect("unsupported_format", UploadPath), NoNext)
       /\ UNCHANGED <<files, req>>
  ELSE /\ seq.songs + UploadsInFlight < MaxSongs
       /\ files' = files \cup {filename}
       /\ req' = [req EXCEPT ![c] =
                    [pc |-> "upload_saved", user_id |-> session[c],
                     title |-> IF title = <<>> THEN SplitextRoot(file) ELSE title,
                     filename |-> filename]]
       /\ UNCHANGED <<resp, loc>>

UploadSave(c, rawTitle, file) ==
  /\ req[c] = Idle
  /\ Gated(c, UploadPath,
       /\ UploadHandler(c, rawTitle, file)
       /\ UNCHANGED <<users, songs, playlists, playlist_songs, seq, session, now,
                      authCause, wanted>>)

\* the INSERT INTO songs, the commit and the response
UploadInsert(c) ==
  /\ req[c].pc = "upload_saved"
  /\ songs' = Append(songs, [id |-> seq.songs + 1, user_id |-> req[c].user_id,
                             title |-> req[c].title, filename |-> req[c].filename])
  /\ seq' = [seq EXCEPT !.songs = @ + 1]
  /\ req' = [req EXCEPT ![c] = Idle]
  /\ Respond(c, Redirect("uploaded", IndexPath), NoNext)
  /\ UNCHANGED <<users, playlists, playlist_songs, files, session, now, authCause, wanted>>

\* --------------------------------------------------------------- my_songs
\* SELECT ... FROM songs WHERE user_id = ? ORDER BY id DESC
MySongsListing(user_id) == OrderByIdDesc({r \in Range(songs) : r.user_id = user_id})

MySongs(c) ==
  /\ req[c] = Idle
  /\ Gated(c, Path("my_songs", 0, 0),
       /\ Respond(c, ListPage(Path("my_songs", 0, 0), Ids(MySongsListing(session[c]))),
                  NoNext)
       /\ UNCHANGED <<users, songs, playlists, playlist_songs, seq, files, session,
                      req, now, authCause, wanted>>)

\* ------------------------------------------------------------ delete_song
\* SELECT user_id, filename FROM songs WHERE id = ? LIMIT 1
SongRows(song_id) == {i \in 1..Len(songs) : songs[i].id = song_id}

\* variant of DeleteSongHandler that skips the ownership check
DeleteSongHandler_NoOwnerCheck(c, song_id) ==
  IF SongRows(song_id) = {}
  THEN /\ Respond(c, Redirect("song_not_found", IndexPath), NoNext)
       /\ UNCHANGED req
  ELSE LET row == songs[CHOOSE i \in SongRows(song_id) : TRUE] IN
       /\ req' = [req EXCEPT ![c] =
                    [pc |-> "delete_checked", song_id |-> song_id,
                     filename |-> row.filename]]
       /\ UNCHANGED <<resp, loc>>

\* GET /delete_song/<id> up to the ownership check
DeleteSongHandler(c, song_id) ==
  IF SongRows(song_id) = {}
  THEN /\ Respond(c, Redirect("song_not_found", IndexPath), NoNext)
       /\ UNCHANGED req
  ELSE LET row == songs[CHOOSE i \in SongRows(song_id) : TRUE] IN
       IF row.user_id # session[c]
       THEN /\ Respond(c, Redirect("forbidden", IndexPath), NoNext)
            /\ UNCHANGED req
       ELSE /\ req' = [req EXCEPT ![c] =
                         [pc |-> "delete_checked", song_id |-> song_id,
                          filename |-> row.filename]]
            /\ UNCHANGED <<resp, loc>>

DeleteSongCheck(c, song_id) ==
  /\ req[c] = Idle
  /\ Gated(c, Path("delete_song", song_id, 0),
       /\ DeleteSongHandler(c, song_id)
       /\ UNCHANGED <<users, songs, playlists, playlist_songs, seq, files, session,
                      now, authCause, wanted>>)

\* variant of DeleteSongUnlink without the try block: an error of os.remove
\* ends the request
DeleteSongUnlink_Propagates(c, removeOk) ==
  /\ req[c].pc = "delete_checked"
  /\ IF removeOk
     THEN /\ files' = files \ {req[c].filename}
          /\ req' = [req EXCEPT ![c].pc = "delete_unlinked"]
          /\ UNCHANGED <<resp, loc>>
     ELSE /\ files' = files
          /\ req' = [req EXCEPT ![c] = Idle]
          /\ Respond(c, ServerError, NoNext)
  /\ UNCHANGED <<users, songs, playlists, playlist_songs, seq, session,
                 now, authCause, wanted>>

\* the try block: os.path.exists / os.remove; an error of os.remove is logged
\* and swallowed, the file then stays
DeleteSongUnlink(c, removeOk) ==
  /\ req[c].pc = "delete_checked"
  /\ files' = IF removeOk THEN files \ {req[c].filename} ELSE files
  /\ req' = [req EXCEPT ![c].pc = "delete_unlinked"]
  /\ UNCHANGED <<users, songs, playlists, playlist_songs, seq, session, loc, resp,
                 now, authCause, wanted>>

\* DELETE FROM songs WHERE id = ?, the commit and the response
DeleteSongRow(c) ==
  /\ req[c].pc = "delete_unlinked"
  /\ songs' = SelectSeq(songs, LAMBDA r : r.id # req[c].song_id)
  /\ req' = [req EXCEPT ![c] = Idle]
  /\ Respond(c, Redirect("deleted", Path("my_songs", 0, 0)), NoNext)
  /\ UNCHANGED <<users, playlists, playlist_songs, seq, files, session, now,
                 authCause, wanted>>

\* -------------------------------------------------------------- playlists
PlaylistsPath == Path("playlists", 0, 0)

Playlists(c) ==
  /\ req[c] = Idle
  /\ Gated(c, PlaylistsPath,
       /\ Respond(c, Page("playlists"), NoNext)
       /\ UNCHANGED <<users, songs, playlists, playlist_songs, seq, files, session,
                      req, now, authCause, wanted>>)

CreatePlaylistHandler(c, rawName) ==
  LET name == Strip(rawName) IN
  IF name = <<>>
  THEN /\ Respond(c, Redirect("name_empty", Path("create_playlist", 0, 0)), NoNext)
       /\ UNCHANGED <<playlists, seq>>
  ELSE /\ seq.playlists < MaxPlaylists
       /\ playlists' = Append(playlists, [id |-> seq.playlists + 1,
                                          user_id |-> session[c], name |-> name])
       /\ seq' = [seq EXCEPT !.playlists = @ + 1]
       /\ Respond(c, Redirect("playlist_created", PlaylistsPath), NoNext)

CreatePlaylist(c, rawName) ==
  /\ req[c] = Idle
  /\ Gated(c, Path("create_playlist", 0, 0),
       /\ CreatePlaylistHandler(c, rawName)
       /\ UNCHANGED <<users, songs, playlist_songs, files, session, req, now,
                      authCause, wanted>>)

PlaylistRows(playlist_id) == {i \in 1..Len(playlists) : playlists[i].id = playlist_id}

\* playlist_songs JOIN songs JOIN users WHERE playlist_songs.playlist_id = ?
\* (no ORDER BY; the rows are listed here by song id)
PlaylistItems(playlist_id) ==
  OrderByIdDesc({r \in SongsJoinUsers : BagIn(<<playlist_id, r.id>>, playlist_songs)})

ViewPlaylist(c, playlist_id) ==
  /\ req[c] = Idle
  /\ Gated(c, Path("view_playlist", playlist_id, 0),
       /\ IF PlaylistRows(playlist_id) = {}
          THEN Respond(c, Redirect("playlist_not_found", PlaylistsPath), NoNext)
          ELSE Respond(c, ListPage(Path("view_playlist", playlist_id, 0),
                                   Ids(PlaylistItems(playlist_id))), NoNext)
       /\ UNCHANGED <<users, songs, playlists, playlist_songs, seq, files, session,
                      req, now, authCause, wanted>>)

\* int(request.form.get("song_id") or 0): -1 stands for the ValueError
ParseSongId(field) ==
  IF field = <<>> THEN 0
  ELSE IF Len(field) = 1 /\ field[1] \in Range(Digits)
  THEN (CHOOSE i \in 1..10 : Digits[i] = field[1]) - 1
  ELSE -1

\* variant of AddToPlaylistHandler whose table has no primary key
AddToPlaylistHandler_NoPrimaryKey(c, playlist_id, field) ==
  LET song_id == ParseSongId(field)
      back == Redirect("", Path("view_playlist", playlist_id, 0))
  IN
  IF song_id = -1
  THEN /\ Respond(c, ServerError, NoNext)
       /\ UNCHANGED playlist_songs
  ELSE /\ BagCardinality(playlist_songs) < MaxMembers
       /\ playlist_songs' = playlist_songs (+) SetToBag({<<playlist_id, song_id>>})
       /\ Respond(c, [back EXCEPT !.notice = "added"], NoNext)

\* INSERT INTO playlist_songs under PRIMARY KEY (playlist_id, song_id); the
\* FOREIGN KEY clauses are not enforced (no PRAGMA foreign_keys)
AddToPlaylistHandler(c, playlist_id, field) ==
  LET song_id == ParseSongId(field)
      row == <<playlist_id, song_id>>
      back == Redirect("", Path("view_playlist", playlist_id, 0))
  IN
  IF song_id = -1
  THEN /\ Respond(c, ServerError, NoNext)
       /\ UNCHANGED playlist_songs
  ELSE IF BagIn(row, playlist_songs)
  THEN /\ Respond(c, [back EXCEPT !.notice = "already_in_playlist"], NoNext)
       /\ UNCHANGED playlist_songs
  ELSE /\ BagCardinality(playlist_songs) < MaxMembers
       /\ playlist_songs' = playlist_songs (+) SetToBag({row})
       /\ Respond(c, [back EXCEPT !.notice = "added"], NoNext)

AddToPlaylist(c, playlist_id, field) ==
  /\ req[c] = Idle
  /\ Gated(c, Path("add_to_playlist", playlist_id, 0),
       /\ AddToPlaylistHandler(c, playlist_id, field)
       /\ UNCHANGED <<users, songs, playlists, seq, files, session, req, now,
                      authCause, wanted>>)

\* DELETE FROM playlist_songs of the rows matched by a WHERE clause
DeleteMembers(matched) ==
  [r \in BagToSet(playlist_songs) \ matched |-> playlist_songs[r]]

\* WHERE playlist_id = ?
MembersOfPlaylist(playlist_id) == {r \in BagToSet(playlist_songs) : r[1] = playlist_id}

\* variant of RemoveFromPlaylist whose DELETE matches on the playlist alone
RemoveFromPlaylist_WholePlaylist(c, playlist_id, song_id) ==
  /\ req[c] = Idle
  /\ Gated(c, Path("remove_from_playlist", playlist_id, song_id),
       /\ playlist_songs' = DeleteMembers(MembersOfPlaylist(playlist_id))
       /\ Respond(c, Redirect("removed", Path("view_playlist", playlist_id, 0)), NoNext)
       /\ UNCHANGED <<users, songs, playlists, seq, files, session, req, now,
                      authCause, wanted>>)

RemoveFromPlaylist(c, playlist_id, song_id) ==
  /\ req[c] = Idle
  /\ Gated(c, Path("remove_from_playlist", playlist_id, song_id),
       /\ playlist_songs' = DeleteMembers({<<playlist_id, song_id>>})
       /\ Respond(c, Redirect("removed", Path("view_playlist", playlist_id, 0)), NoNext)
       /\ UNCHANGED <<users, songs, playlists, seq, files, session, req, now,
                      authCause, wanted>>)

\* variant of DeletePlaylist whose second DELETE has no user_id condition
DeletePlaylist_AnyOwner(c, playlist_id) ==
  /\ req[c] = Idle
  /\ Gated(c, Path("delete_playlist", playlist_id, 0),
       /\ playlist_songs' = DeleteMembers(MembersOfPlaylist(playlist_id))
       /\ playlists' = SelectSeq(playlists, LAMBDA r : r.id # playlist_id)
       /\ Respond(c, Redirect("playlist_deleted", PlaylistsPath), NoNext)
       /\ UNCHANGED <<users, songs, seq, files, session, req, now, authCause, wanted>>)

DeletePlaylist(c, playlist_id) ==
  /\ req[c] = Idle
  /\ Gated(c, Path("delete_playlist", playlist_id, 0),
       /\ playlist_songs' = DeleteMembers(MembersOfPlaylist(playlist_id))
       /\ playlists' = SelectSeq(playlists,
                         LAMBDA r : ~(r.id = playlist_id /\ r.user_id = session[c]))
       /\ Respond(c, Redirect("playlist_deleted", PlaylistsPath), NoNext)
       /\ UNCHANGED <<users, songs, seq, files, session, req, now, authCause, wanted>>)

\* ---------------------------------------------------------- input sets
Names == { <<"a">>, <<"b">> }
TrackMp3 == <<"t",".","m","p","3">>
TrackExe == <<"t",".","e","x","e">>
SongIdFields == { <<>>, <<"1">>, <<"x">> }
PlaylistNames == { <<>>, <<" ">>, <<"r">> }
UploadFiles ==
  { NoFile, <<>>, TrackMp3, TrackExe,
    <<"t",".","M","P","3">>, <<"t",".","O","g","g">>, <<"t",".","w","a","v">>,
    <<"t",".","m","4","a">>, <<"m","p","3">>, <<".","m","p","3">>,
    <<"t",".","m","p","3",".","e","x","e">>, <<"#","t",".","m","p","3">>,
    <<"t",".","m","p","3"," ">>, <<"t",".">> }
TitleInputs == { <<>>, <<" ">>, <<"T">> }

\* two people, each at their own browser, with accounts a and b
Person == [c1 |-> <<"a">>, c2 |-> <<"b">>]
RegisterPlain == \E c \in Clients : Register(c, Person[c], Person[c], "p")
LoginPlain == \E c \in Clients : Login(c, Person[c], "p")

\* --------------------------------------------------------- specifications
\* registration with every form input, two browsers
NextRegister ==
  \/ \E c \in Clients, u \in UsernameInputs, e \in EmailInputs, p \in PasswordInputs :
       Register(c, u, e, p)
  \/ LoginPlain
  \/ \E c \in Clients : Logout(c)

SpecRegister == Init /\ [][NextRegister]_vars

\* login with every form input, logout and the session gate, two browsers
NextAuth ==
  \/ \E c \in Clients, n \in Names : Register(c, n, n, "p")
  \/ \E c \in Clients, i \in IdentInputs, p \in LoginPasswords : Login(c, i, p)
  \/ \E c \in Clients : Logout(c)
  \/ \E c \in Clients : MySongs(c)

SpecAuth == Init /\ [][NextAuth]_vars

\* the song catalog and the uploads directory, requests interleaved
NextCatalog ==
  \/ Tick
  \/ RegisterPlain
  \/ LoginPlain
  \/ \E c \in Clients, f \in {TrackMp3, TrackExe} : UploadSave(c, <<>>, f)
  \/ \E c \in Clients : UploadInsert(c)
  \/ \E c \in Clients, id \in 1..MaxSongs : DeleteSongCheck(c, id)
  \/ \E c \in Clients, ok \in BOOLEAN : DeleteSongUnlink(c, ok)
  \/ \E c \in Clients : DeleteSongRow(c)
  \/ \E c \in Clients : AddToPlaylist(c, 1, <<"1">>)

SpecCatalog == Init /\ [][NextCatalog]_vars

\* upload validation, one browser
NextUpload ==
  \/ Tick
  \/ Register("c1", <<"a">>, <<"a">>, "p")
  \/ Login("c1", <<"a">>, "p")
  \/ Logout("c1")
  \/ \E t \in TitleInputs, f \in UploadFiles : UploadSave("c1", t, f)
  \/ UploadInsert("c1")

SpecUpload == Init /\ [][NextUpload]_vars

\* playlists and their membership
NextPlaylist ==
  \/ RegisterPlain
  \/ LoginPlain
  \/ UploadSave("c1", <<>>, TrackMp3)
  \/ UploadInsert("c1")
  \/ \E c \in Clients, n \in PlaylistNames : CreatePlaylist(c, n)
  \/ \E c \in Clients, p \in 1..MaxPlaylists, f \in SongIdFields :
       AddToPlaylist(c, p, f)
  \/ \E c \in Clients, p \in 1..MaxPlaylists, sid \in 0..1 :
       RemoveFromPlaylist(c, p, sid)
  \/ \E c \in Clients, p \in 1..MaxPlaylists : DeletePlaylist(c, p)

SpecPlaylist == Init /\ [][NextPlaylist]_vars

\* deleting songs whose file is present, missing or cannot be removed, and
\* the listings; a handler past its ownership check runs on to its return
SearchPlain == { <<>>, <<"t">> }

NextDelete ==
  \/ RegisterPlain
  \/ LoginPlain
  \/ \E c \in Clients : UploadSave(c, <<>>, TrackMp3)
  \/ \E c \in Clients : UploadInsert(c)
  \/ \E c \in Clients, id \in 1..MaxSongs : DeleteSongCheck(c, id)
  \/ \E c \in Clients, ok \in BOOLEAN : DeleteSongUnlink(c, ok)
  \/ \E c \in Clients : DeleteSongRow(c)
  \/ \E c \in Clients, q \in SearchPlain : Index(c, q)
  \/ \E c \in Clients : MySongs(c)

SpecDelete ==
  /\ Init
  /\ [][NextDelete]_vars
  /\ \A c \in Clients : WF_vars(\E ok \in BOOLEAN : DeleteSongUnlink(c, ok))
  /\ \A c \in Clients : WF_vars(DeleteSongRow(c))

\* the index page and its search over songs of several titles, one browser
SearchInputs ==
  { <<>>, <<" ">>, <<"t">>, <<"T">>, <<" ","t">>, <<"b">>, <<"a","B">>, <<"x">>,
    <<"_">>, <<"%">> }
ListingTitles == { <<>>, <<"T">>, <<"a","b">> }

NextListing ==
  \/ Register("c1", <<"a">>, <<"a">>, "p")
  \/ Login("c1", <<"a">>, "p")
  \/ \E t \in ListingTitles : UploadSave("c1", t, TrackMp3)
  \/ UploadInsert("c1")
  \/ \E id \in 1..MaxSongs : DeleteSongCheck("c1", id)
  \/ DeleteSongUnlink("c1", TRUE)
  \/ DeleteSongRow("c1")
  \/ \E q \in SearchInputs : Index("c1", q)

SpecListing == Init /\ [][NextListing]_vars

\* accounts whose usernames and emails overlap, with different passwords
AccountNames == { <<"a">>, <<"e">> }
AccountEmails == { <<"e">>, <<"E">>, <<"x">> }
AccountIdents == { <<"a">>, <<"e">>, <<"x">>, <<" ","e">> }

AccountPassword(u) == IF u = <<"a">> THEN "p" ELSE "q"

NextIdent ==
  \/ \E u \in AccountNames, e \in AccountEmails : Register("c1", u, e, AccountPassword(u))
  \/ \E i \in AccountIdents, p \in LoginPasswords : Login("c1", i, p)
  \/ Logout("c1")

SpecIdent == Init /\ [][NextIdent]_vars

\* every operation, one browser and one account
Next ==
  \/ Register("c1", <<"a">>, <<"a">>, "p")
  \/ Login("c1", <<"a">>, "p")
  \/ Logout("c1")
  \/ UploadSave("c1", <<>>, TrackMp3)
  \/ UploadInsert("c1")
  \/ \E q \in SearchPlain : Index("c1", q)
  \/ MySongs("c1")
  \/ \E id \in 1..MaxSongs : DeleteSongCheck("c1", id)
  \/ DeleteSongUnlink("c1", TRUE)
  \/ DeleteSongRow("c1")
  \/ Playlists("c1")
  \/ \E n \in PlaylistNames : CreatePlaylist("c1", n)
  \/ \E p \in 1..MaxPlaylists : ViewPlaylist("c1", p)
  \/ \E p \in 1..MaxPlaylists, f \in SongIdFields : AddToPlaylist("c1", p, f)
  \/ \E p \in 1..MaxPlaylists, sid \in 0..1 : RemoveFromPlaylist("c1", p, sid)
  \/ \E p \in 1..MaxPlaylists : DeletePlaylist("c1", p)

Spec == Init /\ [][Next]_vars

\* ------------------------------------------------------------ properties
SongIds == {songs[i].id : i \in 1..Len(songs)}
SongOwner(id) == songs[CHOOSE i \in 1..Len(songs) : songs[i].id = id].user_id
AnswerTo(c, r) == [r EXCEPT !.client = c]

\* C1: every row of songs names a file present in the uploads directory,
\* whenever the row is not the one a delete_song request is in the middle of
\* removing (its file unlinked, its row not yet deleted).
C1_EveryRowHasItsFile ==
  \A i \in 1..Len(songs) :
    \/ songs[i].filename \in files
    \/ \E c \in Clients : req[c].pc = "delete_unlinked" /\ req[c].song_id = songs[i].id

\* C2: delete_song by a logged-in user who does not own the song answers
\* Forbidden, delete_song of an unknown id answers NotFound, and neither
\* changes songs, the uploads directory or playlist_songs; a song row leaves
\* the table only in a delete_song request of a browser whose session user
\* owns that row.
C2_DeleteSongOwnerOnly ==
  [][ /\ \A c \in Clients, id \in 1..(MaxSongs + 1) :
           (DeleteSongCheck(c, id) /\ session[c] # NoUser) =>
             /\ id \notin SongIds =>
                  /\ resp' = AnswerTo(c, Redirect("song_not_found", IndexPath))
                  /\ req'[c] = Idle
                  /\ UNCHANGED <<songs, files, playlist_songs>>
             /\ (id \in SongIds /\ SongOwner(id) # session[c]) =>
                  /\ resp' = AnswerTo(c, Redirect("forbidden", IndexPath))
                  /\ req'[c] = Idle
                  /\ UNCHANGED <<songs, files, playlist_songs>>
      /\ \A id \in SongIds :
           id \notin {songs'[i].id : i \in 1..Len(songs')} =>
             \E c \in Clients : /\ req[c].pc = "delete_unlinked"
                                /\ req[c].song_id = id
                                /\ session[c] = SongOwner(id)
    ]_vars

\* a non-owner was refused while the song, its file and a membership exist
C2_Witness ==
  /\ resp.notice = "forbidden"
  /\ session[resp.client] # NoUser
  /\ \E i \in 1..Len(songs) : /\ songs[i].user_id # session[resp.client]
                               /\ songs[i].filename \in files
                               /\ songs[i].id = 1
  /\ playlist_songs # EmptyBag

\* a request of browser c to one of the nine operations behind login_required
GatedRequest(c) ==
  \/ \E t \in TitleInputs, f \in UploadFiles : UploadSave(c, t, f)
  \/ MySongs(c)
  \/ \E id \in 1..MaxSongs : DeleteSongCheck(c, id)
  \/ Playlists(c)
  \/ \E n \in PlaylistNames : CreatePlaylist(c, n)
  \/ \E p \in 1..MaxPlaylists : ViewPlaylist(c, p)
  \/ \E p \in 1..MaxPlaylists, f \in SongIdFields : AddToPlaylist(c, p, f)
  \/ \E p \in 1..MaxPlaylists, sid \in 0..MaxSongs : RemoveFromPlaylist(c, p, sid)
  \/ \E p \in 1..MaxPlaylists : DeletePlaylist(c, p)

\* the later steps of a request that passed the gate
GatedContinuation(c) ==
  \/ UploadInsert(c)
  \/ \E ok \in BOOLEAN : DeleteSongUnlink(c, ok)
  \/ DeleteSongRow(c)

\* C3: a request to a gated operation whose session holds no user changes no
\* row, no file and no session and is answered by the redirect to login; a
\* session becomes bound only in a successful login and unbound only in
\* logout; every change of songs, playlists, playlist_songs or the uploads
\* directory is a step of a gated request of a browser whose session is bound.
C3_GateBlocksUnboundSession ==
  [][ /\ \A c \in Clients :
           (session[c] = NoUser /\ GatedRequest(c)) =>
             /\ UNCHANGED <<users, songs, playlists, playlist_songs, seq, files, session>>
             /\ req'[c] = Idle
             /\ resp'.client = c /\ resp'.kind = "redirect" /\ resp'.to = LoginPath
             /\ resp'.notice = "login_required"
      /\ \A c \in Clients :
           session'[c] # session[c] =>
             IF session'[c] = NoUser
             THEN Logout(c)
             ELSE /\ resp' = AnswerTo(c, Redirect("login_ok", resp'.to))
                  /\ \E i \in IdentInputs \cup Names, p \in LoginPasswords : Login(c, i, p)
      /\ ~ UNCHANGED <<songs, playlists, playlist_songs, files>> =>
           \E c \in Clients : /\ session[c] # NoUser
                              /\ GatedRequest(c) \/ GatedContinuation(c)
    ]_vars

\* after a logout, a delete_song request for an existing song of the account
\* was turned away at the gate, with a playlist and a membership in place
C3_Witness ==
  /\ session["c1"] = NoUser
  /\ resp = AnswerTo("c1", Redirect("login_required", LoginPath))
  /\ loc["c1"] = Path("delete_song", 1, 0)
  /\ 1 \in SongIds
  /\ playlists # <<>>
  /\ playlist_songs # EmptyBag
  /\ files # {}

Copies(r, bag) == IF BagIn(r, bag) THEN CopiesIn(r, bag) ELSE 0
MemberRows == BagToSet(playlist_songs) \cup BagToSet(playlist_songs')
ViewPath(p) == Path("view_playlist", p, 0)

\* C4: no (playlist, song) pair is in playlist_songs more than once; an
\* add_to_playlist of a pair that is absent inserts it once, an
\* add_to_playlist of a pair that is present is answered by the redirect with
\* the "already in playlist" notice, not by an error, and leaves
\* playlist_songs, hence the playlist's member count, as it was.
C4_MembershipUnique ==
  [][ /\ \A r \in BagToSet(playlist_songs') : CopiesIn(r, playlist_songs') = 1
      /\ \A c \in Clients, p \in 1..MaxPlaylists :
           \A fv \in { << <<>>, 0 >>, << <<"1">>, 1 >> } :
             (AddToPlaylist(c, p, fv[1]) /\ session[c] # NoUser) =>
               IF BagIn(<<p, fv[2]>>, playlist_songs)
               THEN /\ resp' = AnswerTo(c, Redirect("already_in_playlist", ViewPath(p)))
                    /\ playlist_songs' = playlist_songs
               ELSE /\ resp' = AnswerTo(c, Redirect("added", ViewPath(p)))
                    /\ \A r \in MemberRows :
                         Copies(r, playlist_songs') =
                           IF r = <<p, fv[2]>> THEN 1 ELSE Copies(r, playlist_songs)
    ]_vars

\* the other browser's add of a pair already present was turned into the notice
C4_Witness ==
  /\ resp.notice = "already_in_playlist"
  /\ resp.kind = "redirect"
  /\ BagIn(<<resp.to.a, 1>>, playlist_songs)
  /\ BagCardinality(playlist_songs) < MaxMembers

\* C5: remove_from_playlist answers with its redirect and never an error,
\* deletes the row of exactly the pair named (no other membership row and no
\* song, playlist or file), leaves the pair absent, and changes nothing when
\* the pair was not a member: a second removal therefore changes nothing.
C5_RemoveIdempotent ==
  [][ \A c \in Clients, p \in 1..MaxPlaylists, sid \in 0..MaxSongs :
        (RemoveFromPlaylist(c, p, sid) /\ session[c] # NoUser) =>
          /\ resp' = AnswerTo(c, Redirect("removed", ViewPath(p)))
          /\ \A r \in MemberRows :
               Copies(r, playlist_songs') =
                 IF r = <<p, sid>> THEN 0 ELSE Copies(r, playlist_songs)
          /\ ~ BagIn(<<p, sid>>, playlist_songs) => playlist_songs' = playlist_songs
          /\ UNCHANGED <<users, songs, playlists, seq, files>>
    ]_vars

\* a pair was removed and another membership row of a playlist is still there
C5_Witness ==
  /\ resp.notice = "removed"
  /\ \E r \in BagToSet(playlist_songs) : r[1] = resp.to.a
  /\ playlists # <<>>
  /\ songs # <<>>

Blank(t) == \A i \in 1..Len(t) : t[i] = " "
Taken(u, e) == \E i \in 1..Len(users) : users[i].username = u \/ users[i].email = e

\* C7: register with a username or an email equal to that of an existing user
\* creates no user row and, the form being filled in, is answered by the
\* redirect with the conflict notice; no two users share a username or an
\* email; a user row, once inserted, is never changed or removed.
C7_RegisterConflict ==
  [][ /\ \A u \in UsernameInputs, e \in EmailInputs :
           Taken(u, e) =>
             \A c \in Clients, p \in PasswordInputs :
               Register(c, u, e, p) =>
                 /\ users' = users
                 /\ (~ Blank(u) /\ ~ Blank(e) /\ p # "") =>
                      resp' = AnswerTo(c, Redirect("conflict", Path("register", 0, 0)))
      /\ \A i, j \in 1..Len(users') :
           i # j => /\ users'[i].username # users'[j].username
                    /\ users'[i].email # users'[j].email
                    /\ users'[i].id # users'[j].id
      /\ Len(users') >= Len(users)
      /\ \A i \in 1..Len(users) : users'[i] = users[i]
    ]_vars

\* a registration was refused for a conflict while the table had room
C7_Witness ==
  /\ resp.notice = "conflict"
  /\ Len(users) = 1
  /\ Len(users) < MaxUsers

\* C8: a login attempt that fails, whether no user matches the identifier or
\* the matching user's password is another, gets one and the same response
\* (notice, redirect target, login form without next=) and leaves every
\* session as it was before the attempt.
C8_FailedLoginUniform ==
  [][ \A c \in Clients, i \in IdentInputs, p \in LoginPasswords :
        (authCause' \in {"no_user", "bad_password"} /\ Login(c, i, p)) =>
          /\ resp' = AnswerTo(c, Redirect("invalid_credentials", LoginPath))
          /\ loc'[c] = NoNext
          /\ session' = session
    ]_vars

\* a wrong password for an existing user was refused in a browser that holds
\* a session
C8_Witness ==
  /\ authCause = "bad_password"
  /\ resp.notice = "invalid_credentials"
  /\ session[resp.client] # NoUser

\* C9: when the gate has redirected browser c's request for path P to login
\* and only login attempts have followed, the login that succeeds redirects
\* the browser to P.
C9_NextPreserved ==
  [][ \A c \in Clients, i \in IdentInputs, p \in LoginPasswords :
        (authCause' = "ok" /\ wanted[c] # NoNext /\ Login(c, i, p)) =>
          resp'.to = wanted[c]
    ]_vars

NoFileInputs == { NoFile, <<>> }
SupportedInputs ==
  { TrackMp3, <<"t",".","M","P","3">>, <<"t",".","O","g","g">>, <<"t",".","w","a","v">>,
    <<"t",".","m","4","a">>, <<".","m","p","3">>, <<"#","t",".","m","p","3">> }

\* C10: an upload without a file part or with an empty file name is answered
\* NoFileProvided, one whose name has no '.' or whose text after the last '.'
\* is not mp3/ogg/wav/m4a in any case is answered UnsupportedFormat, and
\* neither creates a file or a song row; an accepted upload adds exactly one
\* file to the uploads directory and exactly one song row, owned by the
\* session user.
C10_UploadValidation ==
  [][ /\ \A c \in Clients, t \in TitleInputs, f \in UploadFiles :
           (UploadSave(c, t, f) /\ session[c] # NoUser) =>
             IF f \in NoFileInputs
             THEN /\ resp' = AnswerTo(c, Redirect("no_file", UploadPath))
                  /\ req'[c] = Idle
                  /\ UNCHANGED <<files, songs>>
             ELSE IF f \notin SupportedInputs
             THEN /\ resp' = AnswerTo(c, Redirect("unsupported_format", UploadPath))
                  /\ req'[c] = Idle
                  /\ UNCHANGED <<files, songs>>
             ELSE /\ Cardinality(files' \ files) = 1
                  /\ files \subseteq files'
                  /\ songs' = songs
                  /\ req'[c].pc = "upload_saved"
      /\ \A c \in Clients :
           UploadInsert(c) =>
             /\ files' = files
             /\ Len(songs') = Len(songs) + 1
             /\ SubSeq(songs', 1, Len(songs)) = songs
             /\ songs'[Len(songs')].user_id = session[c]
             /\ songs'[Len(songs')].filename \in files
    ]_vars

\* the part of C10 that does not depend on stored names being distinct:
\* rejected uploads write nothing, and an accepted upload writes its one
\* stored name and inserts one row for the session user
UploadRejectedBeforeWrite ==
  [][ /\ \A c \in Clients, t \in TitleInputs, f \in UploadFiles :
           (UploadSave(c, t, f) /\ session[c] # NoUser) =>
             IF f \in NoFileInputs \/ f \notin SupportedInputs
             THEN /\ resp'.notice = IF f \in NoFileInputs THEN "no_file"
                                                          ELSE "unsupported_format"
                  /\ req'[c] = Idle
                  /\ UNCHANGED <<files, songs>>
             ELSE /\ Cardinality(files' \ files) <= 1
                  /\ files \subseteq files'
                  /\ req'[c].filename \in files'
                  /\ songs' = songs
      /\ \A c \in Clients :
           UploadInsert(c) =>
             /\ files' = files
             /\ Len(songs') = Len(songs) + 1
             /\ SubSeq(songs', 1, Len(songs)) = songs
             /\ songs'[Len(songs')].user_id = session[c]
    ]_vars
\* the steps of a delete_song request past its ownership check, and what the
\* listings show
DeleteRunsOn ==
  /\ \A c \in Clients, id \in SongIds :
       (DeleteSongCheck(c, id) /\ session[c] = SongOwner(id)) =>
         /\ req'[c].pc = "delete_checked"
         /\ req'[c].song_id = id
  /\ \A c \in Clients :
       req[c].pc = "delete_checked" =>
         \/ req'[c] = req[c]
         \/ /\ req'[c].pc = "delete_unlinked"
            /\ req'[c].song_id = req[c].song_id
            /\ songs' = songs
  /\ \A c \in Clients :
       req[c].pc = "delete_unlinked" =>
         \/ req'[c] = req[c]
         \/ /\ req'[c] = Idle
            /\ resp' = AnswerTo(c, Redirect("deleted", Path("my_songs", 0, 0)))
            /\ songs' = SelectSeq(songs, LAMBDA r : r.id # req[c].song_id)
  /\ \A id \in 1..seq.songs :
       id \notin SongIds => id \notin {songs'[i].id : i \in 1..Len(songs')}
  /\ \A c \in Clients, q \in SearchPlain :
       Index(c, q) => Range(resp'.items) \subseteq SongIds
  /\ \A c \in Clients :
       (MySongs(c) /\ session[c] # NoUser) => Range(resp'.items) \subseteq SongIds

\* C11: a delete_song request of the owner for an existing song passes the
\* ownership check; from there, whether the file is removed, was already
\* missing or its removal raises an error, the request goes on to delete the
\* row and answers with the "deleted" redirect (it does so eventually, the
\* handler running to its return); a deleted id never comes back, and the
\* index page, the search and my_songs list only ids of rows in songs, so
\* the song is in no later listing.
C11_DeleteDespiteFileError ==
  /\ [][DeleteRunsOn]_vars
  /\ \A c \in Clients, id \in 1..MaxSongs :
       (req[c].pc = "delete_checked" /\ req[c].song_id = id) ~> (id \notin SongIds)

\* a song was deleted although its file could not be removed: the file is
\* still in the uploads directory and no row or upload names it
C11_Witness ==
  /\ resp.notice = "deleted"
  /\ \A c \in Clients : req[c] = Idle
  /\ \E f \in files : \A i \in 1..Len(songs) : songs[i].filename # f
  /\ seq.songs >= 1

PlaylistIds == {playlists[i].id : i \in 1..Len(playlists)}

\* C12: create_playlist with a non-blank name appends one playlist row, owned
\* by the requester, and view_playlist on the new playlist lists no song; a
\* playlist that has no membership row gets one only in an add_to_playlist
\* request for it, so it stays empty until such an add; with an empty or
\* whitespace-only name no playlist row is created.
C12_NewPlaylistEmpty ==
  [][ /\ \A c \in Clients, n \in PlaylistNames :
           (CreatePlaylist(c, n) /\ session[c] # NoUser) =>
             IF Blank(n)
             THEN /\ playlists' = playlists
                  /\ resp' = AnswerTo(c, Redirect("name_empty", Path("create_playlist", 0, 0)))
             ELSE /\ Len(playlists') = Len(playlists) + 1
                  /\ SubSeq(playlists', 1, Len(playlists)) = playlists
                  /\ playlists'[Len(playlists')].user_id = session[c]
                  /\ playlists'[Len(playlists')].id \notin PlaylistIds
                  /\ \A id \in 1..(MaxPlaylists + 1) :
                       id = playlists'[Len(playlists')].id => PlaylistItems(id)' = <<>>
      /\ \A p \in PlaylistIds :
           (MembersOfPlaylist(p) = {} /\ MembersOfPlaylist(p)' # {}) =>
             \E c \in Clients, f \in SongIdFields : AddToPlaylist(c, p, f)
    ]_vars

\* term occurs in title, ASCII letters compared without case
ContainsNoCase(title, term) ==
  \E k \in 0..(Len(title) - Len(term)) :
    Lower(SubSeq(title, k + 1, k + Len(term))) = Lower(term)

\* position of the row with this id in songs, rows being kept in insertion order
RowOf(id) == CHOOSE i \in 1..Len(songs) : songs[i].id = id

\* C13: the index page lists songs newest-first (of two listed songs the one
\* inserted later comes first, and no song is listed twice); with a search
\* term it lists exactly the songs whose title contains the term, letters
\* compared without case; without one it lists the newest songs, at most 200.
C13_IndexListing ==
  [][ \A c \in Clients, q \in SearchInputs :
        Index(c, q) =>
          LET items == resp'.items
              term == Strip(q)
          IN /\ resp'.kind = "page"
             /\ \A i, j \in 1..Len(items) :
                  i < j => /\ items[i] \in SongIds /\ items[j] \in SongIds
                           /\ RowOf(items[i]) > RowOf(items[j])
             /\ Range(items) \subseteq SongIds
             /\ IF term # <<>>
                THEN Range(items) =
                       {songs[i].id : i \in {k \in 1..Len(songs) :
                                               ContainsNoCase(songs[k].title, term)}}
                ELSE /\ Len(items) <= 200
                     /\ Range(items) =
                          {songs[i].id : i \in {k \in 1..Len(songs) : Len(songs) - k < 200}}
    ]_vars

\* C14: a login whose identifier is the username or the email of a registered
\* user u and whose password is u's is answered as a success and binds the
\* browser's session to u's id, also when the identifier is at once one
\* user's username and another user's email; and a login that binds a session
\* binds it to a user whose password is the one supplied.
C14_LoginByUsernameOrEmail ==
  [][ \A c \in Clients, i \in AccountIdents, p \in LoginPasswords :
        Login(c, i, p) =>
          /\ \A u \in 1..Len(users) :
               ( /\ users[u].username = Strip(i) \/ users[u].email = Strip(i)
                 /\ check_password_hash(users[u].password_hash, p) ) =>
                   /\ session'[c] = users[u].id
                   /\ resp' = AnswerTo(c, Redirect("login_ok", resp'.to))
          /\ resp'.notice = "login_ok" =>
               \E u \in 1..Len(users) :
                 /\ users[u].id = session'[c]
                 /\ check_password_hash(users[u].password_hash, p)
    ]_vars

\* C15: no two rows of songs have the same stored filename, and the file an
\* accepted upload has written is not the file of an existing song nor the
\* file of another upload in progress, whichever users upload, one after the
\* other or interleaved, under the same or different original names.
C15_StoredNamesDistinct ==
  /\ \A i, j \in 1..Len(songs) : i # j => songs[i].filename # songs[j].filename
  /\ \A c \in Clients :
       req[c].pc = "upload_saved" =>
         /\ \A i \in 1..Len(songs) : songs[i].filename # req[c].filename
         /\ \A d \in Clients \ {c} :
              req[d].pc = "upload_saved" => req[d].filename # req[c].filename

Noticed(r) == r.kind = "redirect" /\ r.notice # ""

\* C16: no request ends in a raw error page; in particular create_playlist
\* with a blank name, add_to_playlist with an absent, non-numeric or unknown
\* song id, remove_from_playlist of a pair that is no member and
\* delete_playlist by a user who is not the owner are each answered by a
\* redirect that carries a notice.
C16_NoRawError ==
  [][ /\ resp'.kind # "error"
      /\ \A c \in Clients, p \in 1..MaxPlaylists, f \in SongIdFields :
           (AddToPlaylist(c, p, f) /\ session[c] # NoUser) =>
             Noticed(resp') /\ resp'.to = ViewPath(p)
      /\ \A c \in Clients, n \in PlaylistNames :
           (CreatePlaylist(c, n) /\ session[c] # NoUser /\ Blank(n)) => Noticed(resp')
      /\ \A c \in Clients, p \in 1..MaxPlaylists, sid \in 0..MaxSongs :
           (RemoveFromPlaylist(c, p, sid) /\ session[c] # NoUser) => Noticed(resp')
      /\ \A c \in Clients, p \in 1..MaxPlaylists :
           (DeletePlaylist(c, p) /\ session[c] # NoUser) => Noticed(resp')
    ]_vars

\* C17: every row of playlist_songs names a playlist that is in playlists:
\* add_to_playlist inserts a row only for an existing playlist, and after a
\* playlist is deleted no row with its id is left or can be inserted.
C17_MembersOfExistingPlaylists ==
  \A r \in BagToSet(playlist_songs) : r[1] \in PlaylistIds
====
